---- MODULE Spec2Model ----
(***************************************************************************)
(* Model of NAS_global/opendelta/auto_delta.py: the lazy config registry   *)
(* (_LazyConfigMapping), the lazy model registry (_LazyAutoMapping), the   *)
(* config factory (AutoDeltaConfig) and the model factory (AutoDeltaModel).*)
(*                                                                         *)
(* A Python dict is a sequence of <<key, value>> pairs in insertion order. *)
(* A Python class or object is a record [kind, mod, name]: the module that *)
(* defines it and its __name__.  The substring test of from_finetuned is   *)
(* computed on the characters of the strings (Chars).                      *)
(***************************************************************************)
EXTENDS Integers, Sequences, FiniteSets, TLC

VARIABLES
    cfg_extra_content,   \* LAZY_CONFIG_MAPPING._extra_content
    cfg_modules,         \* LAZY_CONFIG_MAPPING._modules (its keys)
    auto_extra_content,  \* LAZY_DELTA_MAPPING._extra_content
    auto_modules,        \* LAZY_DELTA_MAPPING._modules (its keys)
    last                 \* what the last call was given, did and returned or raised

vars == <<cfg_extra_content, cfg_modules, auto_extra_content, auto_modules, last>>

----------------------------------------------------------------------------
(* Bounds.                                                                 *)

\* The runtime registrations the two registries may hold together.
MaxRegistered == 2

\* The depth of nested calls at which the interpreter raises RecursionError
\* (sys.getrecursionlimit(), 1000 by default).
RecursionLimit == 3

----------------------------------------------------------------------------
(* The tables of the module.                                               *)

DELTA_CONFIG_MAPPING ==
    << <<"lora", "LoraConfig">>,
       <<"low_rank_adapter", "LowRankAdapterConfig">>,
       <<"bitfit", "BitFitConfig">>,
       <<"adapter", "AdapterConfig">>,
       <<"compacter", "CompacterConfig">>,
       <<"prefix", "PrefixConfig">>,
       <<"soft_prompt", "SoftPromptConfig">> >>

DELTA_MODEL_MAPPING ==
    << <<"lora", "LoraModel">>,
       <<"low_rank_adapter", "LowRankAdapterModel">>,
       <<"bitfit", "BitFitModel">>,
       <<"adapter", "AdapterModel">>,
       <<"compacter", "CompacterModel">>,
       <<"prefix", "PrefixModel">>,
       <<"soft_prompt", "SoftPromptModel">> >>

----------------------------------------------------------------------------
(* Python dict operations on a sequence of <<key, value>> pairs.           *)

DictKeys(d) == [i \in 1..Len(d) |-> d[i][1]]

DictValues(d) == [i \in 1..Len(d) |-> d[i][2]]

DictKeySet(d) == {d[i][1] : i \in 1..Len(d)}

DictHas(d, k) == \E i \in 1..Len(d) : d[i][1] = k

DictGet(d, k) == d[CHOOSE i \in 1..Len(d) : d[i][1] = k][2]

\* d[k] = v: an existing key keeps its position, a new key goes last.
DictSet(d, k, v) ==
    IF DictHas(d, k)
    THEN [i \in 1..Len(d) |-> IF d[i][1] = k THEN <<k, v>> ELSE d[i]]
    ELSE Append(d, <<k, v>>)

\* Python's `p in s` on two sequences of characters.
IsSubstring(p, s) ==
    \E i \in 0..(Len(s) - Len(p)) : SubSeq(s, i + 1, i + Len(p)) = p

RangeOf(s) == {s[i] : i \in 1..Len(s)}

----------------------------------------------------------------------------
(* Python values.                                                          *)

None == [kind |-> "none", mod |-> "", name |-> ""]

\* The attribute `attr` of the module opendelta.delta_models.<mod> (a class).
ClassObj(mod, attr) == [kind |-> "class", mod |-> mod, name |-> attr]

user == "user"

transformers == "transformers"

\* An object without a __name__ attribute.
Nameless(tag) == [kind |-> "object", mod |-> user, name |-> tag]

HasName(x) == x.kind = "class"

\* The attributes the module opendelta.delta_models.<mod> defines: its config
\* class and its model class.
ModuleAttrs(mod) ==
    {DictGet(DELTA_CONFIG_MAPPING, mod) : k \in {mod} \cap DictKeySet(DELTA_CONFIG_MAPPING)}
        \cup {DictGet(DELTA_MODEL_MAPPING, mod) : k \in {mod} \cap DictKeySet(DELTA_MODEL_MAPPING)}

\* The names the root namespace of the host library defines.
TransformersAttrs == {"AutoConfig"}

----------------------------------------------------------------------------
(* Errors, by the exception raised and the place that raises it.           *)

NoError == ""
KeyNotFound == "KeyError"
Collision == "ValueError: already used"
MissingType == "RuntimeError: do not specify a delta type"
UnrecognizedSource == "ValueError: unrecognized model"
UnrecognizedConfig == "ValueError: unrecognized configuration class"
AttributeErr == "AttributeError"
RecursionErr == "RecursionError"
ConstructionForbidden == "EnvironmentError"
TypeErr == "TypeError"

\* The outcome of a call: the error raised ("" when it returns), the value
\* returned, and the modules whose import step the call performed, in order.
Returned(v, imp) == [err |-> NoError, ret |-> v, imp |-> imp]

Raised(e, imp) == [err |-> e, ret |-> None, imp |-> imp]

----------------------------------------------------------------------------
(* _LazyConfigMapping, on mapping = DELTA_CONFIG_MAPPING.                  *)

cfg_mapping == DELTA_CONFIG_MAPPING

StaticKeys == DictKeySet(cfg_mapping)

\* getattr(module, value) on the module opendelta.delta_models.<mod>.
GetAttr(mod, value) ==
    IF value \in ModuleAttrs(mod)
    THEN Returned(ClassObj(mod, value), <<mod>>)
    ELSE Raised(AttributeErr, <<mod>>)

RECURSIVE ConcatImports(_, _)
\* The import steps of a sequence of outcomes, in order.
ConcatImports(outs, n) ==
    IF n = 0 THEN <<>> ELSE ConcatImports(outs, n - 1) \o outs[n].imp

\* __getitem__: the import step runs on every lookup of a static key.
cfg_getitem(extra, key) ==
    IF DictHas(extra, key)
    THEN Returned(DictGet(extra, key), <<>>)
    ELSE IF ~DictHas(cfg_mapping, key)
    THEN Raised(KeyNotFound, <<>>)
    ELSE GetAttr(key, DictGet(cfg_mapping, key))

\* list(self._mapping.keys())
static_keys == DictKeys(cfg_mapping)

\* A keys() that leaves the extra content out.
cfg_keys_static_only(extra) == static_keys

\* keys()
cfg_keys(extra) == static_keys \o DictKeys(extra)

\* __iter__: iter(list(self._mapping.keys()) + list(self._extra_content.keys()))
cfg_iter(extra) == static_keys \o DictKeys(extra)

\* A values() that leaves the extra content out.
cfg_values_static_only(extra) ==
    LET looked == [i \in 1..Len(cfg_mapping) |-> cfg_getitem(extra, cfg_mapping[i][1])]
    IN  Returned([i \in 1..Len(cfg_mapping) |-> looked[i].ret],
                 ConcatImports(looked, Len(looked)))

\* values(): self[k] for every static key, then the values of the extra
\* content; a lookup that fails ends the call.
cfg_values(extra) ==
    LET looked == [i \in 1..Len(cfg_mapping) |-> cfg_getitem(extra, cfg_mapping[i][1])]
        failed == {i \in 1..Len(looked) : looked[i].err # NoError}
    IN  IF failed # {}
        THEN LET first == CHOOSE i \in failed : \A j \in failed : i <= j
             IN  Raised(looked[first].err, ConcatImports(looked, first))
        ELSE Returned([i \in 1..Len(cfg_mapping) |-> looked[i].ret] \o DictValues(extra),
                      ConcatImports(looked, Len(looked)))

cfg_contains(extra, item) == DictHas(cfg_mapping, item) \/ DictHas(extra, item)

\* An items() that lists the extra content before the static keys.
cfg_items_extra_first(extra) ==
    LET looked == [i \in 1..Len(cfg_mapping) |-> cfg_getitem(extra, cfg_mapping[i][1])]
    IN  Returned(extra \o
                     [i \in 1..Len(cfg_mapping) |-> <<cfg_mapping[i][1], looked[i].ret>>],
                 ConcatImports(looked, Len(looked)))

\* items(): self[k] for every static key, then the extra content; a lookup
\* that fails ends the call.
cfg_items(extra) ==
    LET looked == [i \in 1..Len(cfg_mapping) |-> cfg_getitem(extra, cfg_mapping[i][1])]
        failed == {i \in 1..Len(looked) : looked[i].err # NoError}
    IN  IF failed # {}
        THEN LET first == CHOOSE i \in failed : \A j \in failed : i <= j
             IN  Raised(looked[first].err, ConcatImports(looked, first))
        ELSE Returned([i \in 1..Len(cfg_mapping) |-> <<cfg_mapping[i][1], looked[i].ret>>]
                          \o extra,
                      ConcatImports(looked, Len(looked)))

\* A register that writes the entry before it checks the key.
cfg_register_write_first(extra, key, value) ==
    [err |-> IF key \in StaticKeys THEN Collision ELSE NoError,
     extra |-> DictSet(extra, key, value)]

\* A register that lets a key of the static table through.
cfg_register_unchecked(extra, key, value) ==
    [err |-> NoError, extra |-> DictSet(extra, key, value)]

\* register: refuses a key of the static table, else sets _extra_content[key].
cfg_register(extra, key, value) ==
    IF key \in StaticKeys
    THEN [err |-> Collision, extra |-> extra]
    ELSE [err |-> NoError, extra |-> DictSet(extra, key, value)]

----------------------------------------------------------------------------
(* _LazyAutoMapping, on DELTA_CONFIG_MAPPING and DELTA_MODEL_MAPPING.      *)

config_mapping == DELTA_CONFIG_MAPPING

model_mapping == DELTA_MODEL_MAPPING

RECURSIVE ReverseUpTo(_, _)
ReverseUpTo(d, n) ==
    IF n = 0 THEN <<>> ELSE DictSet(ReverseUpTo(d, n - 1), d[n][2], d[n][1])

\* An index keyed by the type key instead of the name of the config class.
reverse_config_mapping_by_key ==
    ReverseUpTo([i \in 1..Len(config_mapping) |->
                    <<config_mapping[i][2], config_mapping[i][1]>>],
                Len(config_mapping))

\* {v: k for k, v in config_mapping.items()}, computed once at construction.
reverse_config_mapping == ReverseUpTo(config_mapping, Len(config_mapping))

\* hasattr(module, attr), the module being opendelta.delta_models.<mod> or
\* the root namespace of transformers.
HasAttr(mod, attr) ==
    IF mod = transformers THEN attr \in TransformersAttrs ELSE attr \in ModuleAttrs(mod)

\* getattribute_from_module for a single attribute name: the module's own
\* attribute, else the attribute of the root namespace of transformers, else
\* the fallback is retried on transformers itself without end.
getattribute_from_module(mod, attr) ==
    IF attr \in ModuleAttrs(mod)
    THEN Returned(ClassObj(mod, attr), <<>>)
    ELSE IF attr \in TransformersAttrs
    THEN Returned(ClassObj(transformers, attr), <<>>)
    ELSE Raised(RecursionErr, <<>>)

\* _load_attr_from_module: imports the module unless _modules holds it.
load_attr_from_module(modules, model_type, attr) ==
    LET got == getattribute_from_module(model_type, attr)
    IN  [got EXCEPT !.imp = IF model_type \in modules THEN <<>> ELSE <<model_type>>]

\* __getitem__: extra content first, then by the key's __name__ through the
\* reverse index to the model table.
auto_getitem(extra, modules, key) ==
    IF DictHas(extra, key)
    THEN Returned(DictGet(extra, key), <<>>)
    ELSE IF ~HasName(key)
    THEN Raised(AttributeErr, <<>>)
    ELSE IF ~DictHas(reverse_config_mapping, key.name)
    THEN Raised(KeyNotFound, <<>>)
    ELSE LET model_type == DictGet(reverse_config_mapping, key.name)
         IN  IF ~DictHas(model_mapping, model_type)
             THEN Raised(KeyNotFound, <<>>)
             ELSE load_attr_from_module(modules, model_type,
                                        DictGet(model_mapping, model_type))

\* get(key, default): the default stands in for a KeyError only.
auto_get(extra, modules, key, default) ==
    LET got == auto_getitem(extra, modules, key)
    IN  IF got.err = KeyNotFound THEN Returned(default, got.imp) ELSE got

\* The entries of the config table whose type key the model table has too,
\* in the order of the config table.
shared_config_items ==
    SelectSeq(config_mapping, LAMBDA e : DictHas(model_mapping, e[1]))

\* The attribute every such entry names in the module of its type key.
shared_config_classes ==
    [i \in 1..Len(shared_config_items) |->
        getattribute_from_module(shared_config_items[i][1], shared_config_items[i][2])]

\* keys(): the config class of every type key of both tables, in config
\* table order, then the keys of the extra content.
auto_keys(extra, modules) ==
    LET imp == SelectSeq(DictKeys(shared_config_items), LAMBDA k : k \notin modules)
        failed == {i \in 1..Len(shared_config_classes) :
                      shared_config_classes[i].err # NoError}
    IN  IF failed # {}
        THEN LET first == CHOOSE i \in failed : \A j \in failed : i <= j
             IN  Raised(shared_config_classes[first].err,
                        SelectSeq(SubSeq(DictKeys(shared_config_items), 1, first),
                                  LAMBDA k : k \notin modules))
        ELSE Returned([i \in 1..Len(shared_config_classes) |-> shared_config_classes[i].ret]
                          \o DictKeys(extra),
                      imp)

\* The type keys, in order, that _load_attr_from_module imports: those that
\* _modules does not hold.
Imported(typekeys, modules) == SelectSeq(typekeys, LAMBDA k : k \notin modules)

\* A list built from the outcomes got for typekeys, followed by tail; the
\* first outcome that failed ends the call.
Gather(got, typekeys, modules, tail) ==
    LET failed == {i \in 1..Len(got) : got[i].err # NoError}
    IN  IF failed # {}
        THEN LET first == CHOOSE i \in failed : \A j \in failed : i <= j
             IN  Raised(got[first].err, Imported(SubSeq(typekeys, 1, first), modules))
        ELSE Returned([i \in 1..Len(got) |-> got[i].ret] \o tail,
                      Imported(typekeys, modules))

\* keys() of a _LazyAutoMapping built on the tables cm and mm: the entries of
\* cm whose type key mm has, in the order of cm.
lazy_keys(cm, mm, extra, modules) ==
    LET shared == SelectSeq(cm, LAMBDA e : DictHas(mm, e[1]))
    IN  Gather([i \in 1..Len(shared) |->
                   getattribute_from_module(shared[i][1], shared[i][2])],
               DictKeys(shared), modules, DictKeys(extra))

\* values(): the entries of mm whose type key cm has, in the order of mm.
lazy_values(cm, mm, extra, modules) ==
    LET shared == SelectSeq(mm, LAMBDA e : DictHas(cm, e[1]))
    IN  Gather([i \in 1..Len(shared) |->
                   getattribute_from_module(shared[i][1], shared[i][2])],
               DictKeys(shared), modules, DictValues(extra))

\* The pair items() builds for one type key: the config attribute is loaded
\* first, then the model attribute.
ItemOf(cm, mm, key) ==
    LET c == getattribute_from_module(key, DictGet(cm, key))
        m == getattribute_from_module(key, DictGet(mm, key))
    IN  IF c.err # NoError THEN c
        ELSE IF m.err # NoError THEN m
        ELSE [err |-> NoError, ret |-> <<c.ret, m.ret>>, imp |-> <<>>]

\* items(): a pair for every type key of mm that cm has, in the order of mm.
lazy_items(cm, mm, extra, modules) ==
    LET shared == SelectSeq(mm, LAMBDA e : DictHas(cm, e[1]))
    IN  Gather([i \in 1..Len(shared) |-> ItemOf(cm, mm, shared[i][1])],
               DictKeys(shared), modules, extra)

\* values() and items() of LAZY_DELTA_MAPPING.
auto_values(extra, modules) == lazy_values(config_mapping, model_mapping, extra, modules)

auto_items(extra, modules) == lazy_items(config_mapping, model_mapping, extra, modules)

auto_contains(extra, item) ==
    IF DictHas(extra, item) THEN TRUE
    ELSE IF ~HasName(item) \/ ~DictHas(reverse_config_mapping, item.name) THEN FALSE
    ELSE DictHas(model_mapping, DictGet(reverse_config_mapping, item.name))

\* A register that refuses only the built-in config class itself, not every
\* key that bears its name.
auto_register_by_identity(extra, key, value) ==
    IF /\ HasName(key)
       /\ DictHas(reverse_config_mapping, key.name)
       /\ DictHas(model_mapping, DictGet(reverse_config_mapping, key.name))
       /\ key.mod = DictGet(reverse_config_mapping, key.name)
    THEN [err |-> Collision, extra |-> extra]
    ELSE [err |-> NoError, extra |-> DictSet(extra, key, value)]

\* A register that lets the config class of a built-in model through.
auto_register_unchecked(extra, key, value) ==
    [err |-> NoError, extra |-> DictSet(extra, key, value)]

\* register: refuses a key whose __name__ the reverse index maps to a type
\* key of the model table, else sets _extra_content[key].
auto_register(extra, key, value) ==
    IF /\ HasName(key)
       /\ DictHas(reverse_config_mapping, key.name)
       /\ DictHas(model_mapping, DictGet(reverse_config_mapping, key.name))
    THEN [err |-> Collision, extra |-> extra]
    ELSE [err |-> NoError, extra |-> DictSet(extra, key, value)]

----------------------------------------------------------------------------
(* What a factory call did: the outcome of the call, the class it picked   *)
(* (target), the method of that class it called, and what it passed on.    *)

Did ==
    [err |-> NoError, ret |-> None, imp |-> <<>>, target |-> None, method |-> "",
     fwd |-> <<>>, opts |-> {}, cfg |-> None, host |-> "", listed |-> <<>>]

\* A config_dict is a function from field names to values.
Without(m, f) == [x \in (DOMAIN m) \ {f} |-> m[x]]

\* cls.from_dict(config_dict, **kwargs) of a concrete config class: an
\* instance of cls holding the fields it was given.
ConcreteFromDict(cls, config_dict) ==
    [kind |-> "inst", type |-> cls, fields |-> config_dict]

\* type(config)
TypeOf(config) == config.type

\* cls.from_config(config, backbone_model) or cls.from_finetuned(path,
\* backbone_model) of a concrete model class: a model wrapping the host.
ConcreteModel(cls, host) == [kind |-> "model", type |-> cls, host |-> host]

----------------------------------------------------------------------------
(* AutoDeltaConfig                                                         *)

\* AutoDeltaConfig(*args, **kwargs): __init__(self) takes no argument, so the
\* call is refused with TypeError before the body runs when any is passed.
config_init(args, kwargs) ==
    IF args # <<>> \/ kwargs # {}
    THEN Raised(TypeErr, <<>>)
    ELSE Raised(ConstructionForbidden, <<>>)

\* A from_dict that reads delta_type and leaves it in the mapping it passes on.
from_dict_keeps_type(extra, config_dict, kwargs) ==
    IF "delta_type" \notin DOMAIN config_dict
    THEN [Did EXCEPT !.err = MissingType]
    ELSE LET looked == cfg_getitem(extra, config_dict["delta_type"])
         IN  IF looked.err # NoError
             THEN [Did EXCEPT !.err = looked.err, !.imp = looked.imp]
             ELSE [Did EXCEPT !.ret = ConcreteFromDict(looked.ret, config_dict),
                              !.imp = looked.imp,
                              !.target = looked.ret,
                              !.method = "from_dict",
                              !.fwd = config_dict,
                              !.opts = kwargs]

\* A from_dict that takes "lora" for a missing delta_type.
from_dict_default_type(extra, config_dict, kwargs) ==
    LET delta_type == IF "delta_type" \in DOMAIN config_dict
                      THEN config_dict["delta_type"] ELSE "lora"
        rest == Without(config_dict, "delta_type")
        looked == cfg_getitem(extra, delta_type)
    IN  IF looked.err # NoError
        THEN [Did EXCEPT !.err = looked.err, !.imp = looked.imp]
        ELSE [Did EXCEPT !.ret = ConcreteFromDict(looked.ret, rest),
                         !.imp = looked.imp,
                         !.target = looked.ret,
                         !.method = "from_dict",
                         !.fwd = rest,
                         !.opts = kwargs]

\* from_dict: pops delta_type from a copy of config_dict, looks the class up
\* and passes the remaining fields to its from_dict.
from_dict(extra, config_dict, kwargs) ==
    IF "delta_type" \notin DOMAIN config_dict
    THEN [Did EXCEPT !.err = MissingType]
    ELSE LET delta_type == config_dict["delta_type"]
             rest == Without(config_dict, "delta_type")
             looked == cfg_getitem(extra, delta_type)
         IN  IF looked.err # NoError
             THEN [Did EXCEPT !.err = looked.err, !.imp = looked.imp]
             ELSE [Did EXCEPT !.ret = ConcreteFromDict(looked.ret, rest),
                              !.imp = looked.imp,
                              !.target = looked.ret,
                              !.method = "from_dict",
                              !.fwd = rest,
                              !.opts = kwargs]

\* The characters of the strings the model uses as type keys and locations.
Chars ==
    [lora |-> <<"l","o","r","a">>,
     low_rank_adapter |-> <<"l","o","w","_","r","a","n","k","_","a","d","a","p","t","e","r">>,
     bitfit |-> <<"b","i","t","f","i","t">>,
     adapter |-> <<"a","d","a","p","t","e","r">>,
     compacter |-> <<"c","o","m","p","a","c","t","e","r">>,
     prefix |-> <<"p","r","e","f","i","x">>,
     soft_prompt |-> <<"s","o","f","t","_","p","r","o","m","p","t">>,
     t5 |-> <<"t","5">>,
     base |-> <<"b","a","s","e">>,
     ia3 |-> <<"i","a","3">>,
     lora_t5 |-> <<"l","o","r","a","_","t","5">>,
     prefix_bitfit |-> <<"p","r","e","f","i","x","_","b","i","t","f","i","t">>,
     t5_base |-> <<"t","5","_","b","a","s","e">>,
     bert |-> <<"b","e","r","t">>]

\* pattern in str(location), for every pair of these strings.
Occurs == [p \in DOMAIN Chars |-> [s \in DOMAIN Chars |-> IsSubstring(Chars[p], Chars[s])]]

\* The first index of items whose key occurs in the location string, 0 if none.
FirstMatch(items, location) ==
    LET hits == {i \in 1..Len(items) : Occurs[items[i][1]][location]}
    IN  IF hits = {} THEN 0 ELSE CHOOSE i \in hits : \A j \in hits : i <= j

\* from_finetuned: config_dict is what BaseDeltaConfig.get_config_dict loaded
\* from the location.
config_from_finetuned(extra, location, config_dict, kwargs) ==
    LET kw == kwargs \cup {"name_or_path"}
    IN  IF "delta_type" \in DOMAIN config_dict
        THEN LET looked == cfg_getitem(extra, config_dict["delta_type"])
             IN  IF looked.err # NoError
                 THEN [Did EXCEPT !.err = looked.err, !.imp = looked.imp]
                 ELSE [Did EXCEPT !.ret = ConcreteFromDict(looked.ret, config_dict),
                                  !.imp = looked.imp,
                                  !.target = looked.ret,
                                  !.method = "from_dict",
                                  !.fwd = config_dict,
                                  !.opts = kw]
        ELSE LET items == cfg_items(extra)
                 hit == FirstMatch(items.ret, location)
             IN  IF items.err # NoError
                 THEN [Did EXCEPT !.err = items.err, !.imp = items.imp]
                 ELSE IF hit # 0
                 THEN [Did EXCEPT !.ret = ConcreteFromDict(items.ret[hit][2], config_dict),
                                  !.imp = items.imp,
                                  !.target = items.ret[hit][2],
                                  !.method = "from_dict",
                                  !.fwd = config_dict,
                                  !.opts = kw]
                 ELSE [Did EXCEPT !.err = UnrecognizedSource,
                                  !.imp = items.imp,
                                  !.listed = cfg_keys(extra)]

----------------------------------------------------------------------------
(* AutoDeltaModel                                                          *)

\* AutoDeltaModel(*args, **kwargs): __init__(self, *args, **kwargs) raises.
model_init(args, kwargs) == Raised(ConstructionForbidden, <<>>)

\* c.__name__ for every c of keys: fails on a key without a __name__.
NamesOf(keys) ==
    IF \A i \in 1..Len(keys) : HasName(keys[i])
    THEN Returned([i \in 1..Len(keys) |-> keys[i].name], <<>>)
    ELSE Raised(AttributeErr, <<>>)

\* from_config
from_config(extra, modules, config, backbone_model) ==
    LET keys == auto_keys(extra, modules)
        loaded == modules \cup RangeOf(keys.imp)
    IN  IF keys.err # NoError
        THEN [Did EXCEPT !.err = keys.err, !.imp = keys.imp]
        ELSE IF TypeOf(config) \in RangeOf(keys.ret)
        THEN LET looked == auto_getitem(extra, loaded, TypeOf(config))
             IN  IF looked.err # NoError
                 THEN [Did EXCEPT !.err = looked.err, !.imp = keys.imp \o looked.imp]
                 ELSE [Did EXCEPT !.ret = ConcreteModel(looked.ret, backbone_model),
                                  !.imp = keys.imp \o looked.imp,
                                  !.target = looked.ret,
                                  !.method = "from_config",
                                  !.cfg = config,
                                  !.host = backbone_model]
        ELSE LET names == NamesOf(auto_keys(extra, loaded).ret)
             IN  IF names.err # NoError
                 THEN [Did EXCEPT !.err = names.err, !.imp = keys.imp]
                 ELSE [Did EXCEPT !.err = UnrecognizedConfig,
                                  !.imp = keys.imp,
                                  !.listed = names.ret]

\* from_finetuned, once it holds a config: the failure message reads
\* cls._model_mapping, an attribute AutoDeltaModel does not have.
model_from_finetuned_with(extra, modules, config, backbone_model) ==
    LET keys == auto_keys(extra, modules)
        loaded == modules \cup RangeOf(keys.imp)
    IN  IF keys.err # NoError
        THEN [Did EXCEPT !.err = keys.err, !.imp = keys.imp]
        ELSE IF TypeOf(config) \in RangeOf(keys.ret)
        THEN LET looked == auto_getitem(extra, loaded, TypeOf(config))
             IN  IF looked.err # NoError
                 THEN [Did EXCEPT !.err = looked.err, !.imp = keys.imp \o looked.imp]
                 ELSE [Did EXCEPT !.ret = ConcreteModel(looked.ret, backbone_model),
                                  !.imp = keys.imp \o looked.imp,
                                  !.target = looked.ret,
                                  !.method = "from_finetuned",
                                  !.cfg = config,
                                  !.host = backbone_model]
        ELSE [Did EXCEPT !.err = AttributeErr, !.imp = keys.imp, !.cfg = config]

\* from_finetuned: a config supplied in the options is used as it is, any
\* other value is replaced by AutoDeltaConfig.from_finetuned on the location.
model_from_finetuned(cextra, aextra, modules, supplied, location, config_dict, backbone_model) ==
    IF supplied.kind = "inst"
    THEN [inner |-> Did,
          did |-> model_from_finetuned_with(aextra, modules, supplied, backbone_model)]
    ELSE LET c == config_from_finetuned(cextra, location, config_dict,
                                        {"return_unused_kwargs"})
         IN  IF c.err # NoError
             THEN [inner |-> c, did |-> [Did EXCEPT !.err = c.err]]
             ELSE [inner |-> c,
                   did |-> model_from_finetuned_with(aextra, modules, c.ret,
                                                     backbone_model)]

----------------------------------------------------------------------------
(* The state machine: one action per call on the registries and factories. *)

\* The record of a call: its arguments, what it did, and the modules of the
\* config registry it imported although _modules already held them.
Call ==
    [op |-> "none", key |-> None, val |-> None, given |-> <<>>, loc |-> "",
     supplied |-> None, host |-> "", did |-> Did, inner |-> Did, reimported |-> {},
     args |-> <<>>, kw |-> {}, cm |-> <<>>, mm |-> <<>>, module |-> "", attr |-> "", depth |-> 0, pending |-> FALSE]

\* No call is under way: the caller has taken the outcome of the last one.
Idle == last.op = "none"

AsDid(r) == [Did EXCEPT !.err = r.err, !.ret = r.ret, !.imp = r.imp]

Init ==
    /\ cfg_extra_content = <<>>
    /\ cfg_modules = {}
    /\ auto_extra_content = <<>>
    /\ auto_modules = {}
    /\ last = Call

\* LAZY_CONFIG_MAPPING[key]
CfgGetItem(key) ==
    /\ Idle
    /\ \E r \in {cfg_getitem(cfg_extra_content, key)} :
            /\ cfg_modules' = cfg_modules \cup RangeOf(r.imp)
            /\ last' = [Call EXCEPT !.op = "cfg_getitem", !.key = key, !.did = AsDid(r),
                                    !.reimported = RangeOf(r.imp) \cap cfg_modules]
            /\ UNCHANGED <<cfg_extra_content, auto_extra_content, auto_modules>>

\* LAZY_CONFIG_MAPPING.keys()
CfgKeys ==
    /\ Idle
    /\ last' = [Call EXCEPT !.op = "cfg_keys",
                            !.did = [Did EXCEPT !.listed = cfg_keys(cfg_extra_content)]]
    /\ UNCHANGED <<cfg_extra_content, cfg_modules, auto_extra_content, auto_modules>>

\* list(iter(LAZY_CONFIG_MAPPING))
CfgIter ==
    /\ Idle
    /\ last' = [Call EXCEPT !.op = "cfg_iter",
                            !.did = [Did EXCEPT !.listed = cfg_iter(cfg_extra_content)]]
    /\ UNCHANGED <<cfg_extra_content, cfg_modules, auto_extra_content, auto_modules>>

\* LAZY_CONFIG_MAPPING.values()
CfgValues ==
    /\ Idle
    /\ \E r \in {cfg_values(cfg_extra_content)} :
            /\ cfg_modules' = cfg_modules \cup RangeOf(r.imp)
            /\ last' = [Call EXCEPT !.op = "cfg_values",
                                    !.did = [Did EXCEPT !.err = r.err, !.imp = r.imp,
                                                        !.listed = r.ret],
                                    !.reimported = RangeOf(r.imp) \cap cfg_modules]
            /\ UNCHANGED <<cfg_extra_content, auto_extra_content, auto_modules>>

\* LAZY_CONFIG_MAPPING.items()
CfgItems ==
    /\ Idle
    /\ \E r \in {cfg_items(cfg_extra_content)} :
            /\ cfg_modules' = cfg_modules \cup RangeOf(r.imp)
            /\ last' = [Call EXCEPT !.op = "cfg_items",
                                    !.did = [Did EXCEPT !.err = r.err, !.imp = r.imp,
                                                        !.listed = r.ret],
                                    !.reimported = RangeOf(r.imp) \cap cfg_modules]
            /\ UNCHANGED <<cfg_extra_content, auto_extra_content, auto_modules>>

\* LAZY_CONFIG_MAPPING.register(key, value)
CfgRegister(key, value) ==
    /\ Idle
    /\ \E r \in {cfg_register(cfg_extra_content, key, value)} :
            /\ Len(r.extra) + Len(auto_extra_content) <= MaxRegistered
            /\ cfg_extra_content' = r.extra
            /\ last' = [Call EXCEPT !.op = "cfg_register", !.key = key, !.val = value,
                                    !.did = [Did EXCEPT !.err = r.err]]
            /\ UNCHANGED <<cfg_modules, auto_extra_content, auto_modules>>

\* LAZY_DELTA_MAPPING[key]
AutoGetItem(key) ==
    /\ Idle
    /\ \E r \in {auto_getitem(auto_extra_content, auto_modules, key)} :
            /\ auto_modules' = auto_modules \cup RangeOf(r.imp)
            /\ last' = [Call EXCEPT !.op = "auto_getitem", !.key = key, !.did = AsDid(r)]
            /\ UNCHANGED <<cfg_extra_content, cfg_modules, auto_extra_content>>

\* LAZY_DELTA_MAPPING.get(key, default)
AutoGet(key, default) ==
    /\ Idle
    /\ \E r \in {auto_get(auto_extra_content, auto_modules, key, default)} :
            /\ auto_modules' = auto_modules \cup RangeOf(r.imp)
            /\ last' = [Call EXCEPT !.op = "auto_get", !.key = key, !.val = default,
                                    !.did = AsDid(r)]
            /\ UNCHANGED <<cfg_extra_content, cfg_modules, auto_extra_content>>

\* The outcome of an enumeration, as what a call did.
Listing(r) == [Did EXCEPT !.err = r.err, !.imp = r.imp, !.listed = r.ret]

\* LAZY_DELTA_MAPPING.keys()
AutoKeys ==
    /\ Idle
    /\ \E r \in {auto_keys(auto_extra_content, auto_modules)} :
            /\ auto_modules' = auto_modules \cup RangeOf(r.imp)
            /\ last' = [Call EXCEPT !.op = "auto_keys", !.cm = config_mapping,
                                    !.mm = model_mapping, !.did = Listing(r)]
            /\ UNCHANGED <<cfg_extra_content, cfg_modules, auto_extra_content>>

\* LAZY_DELTA_MAPPING.values()
AutoValues ==
    /\ Idle
    /\ \E r \in {auto_values(auto_extra_content, auto_modules)} :
            /\ auto_modules' = auto_modules \cup RangeOf(r.imp)
            /\ last' = [Call EXCEPT !.op = "auto_values", !.cm = config_mapping,
                                    !.mm = model_mapping, !.did = Listing(r)]
            /\ UNCHANGED <<cfg_extra_content, cfg_modules, auto_extra_content>>

\* LAZY_DELTA_MAPPING.items()
AutoItems ==
    /\ Idle
    /\ \E r \in {auto_items(auto_extra_content, auto_modules)} :
            /\ auto_modules' = auto_modules \cup RangeOf(r.imp)
            /\ last' = [Call EXCEPT !.op = "auto_items", !.cm = config_mapping,
                                    !.mm = model_mapping, !.did = Listing(r)]
            /\ UNCHANGED <<cfg_extra_content, cfg_modules, auto_extra_content>>

\* _LazyAutoMapping(cm, mm).keys(): a registry of the caller, just built.
NewRegistryKeys(cm, mm) ==
    /\ Idle
    /\ last' = [Call EXCEPT !.op = "new_keys", !.cm = cm, !.mm = mm,
                            !.did = Listing(lazy_keys(cm, mm, <<>>, {}))]
    /\ UNCHANGED <<cfg_extra_content, cfg_modules, auto_extra_content, auto_modules>>

\* _LazyAutoMapping(cm, mm).values()
NewRegistryValues(cm, mm) ==
    /\ Idle
    /\ last' = [Call EXCEPT !.op = "new_values", !.cm = cm, !.mm = mm,
                            !.did = Listing(lazy_values(cm, mm, <<>>, {}))]
    /\ UNCHANGED <<cfg_extra_content, cfg_modules, auto_extra_content, auto_modules>>

\* _LazyAutoMapping(cm, mm).items()
NewRegistryItems(cm, mm) ==
    /\ Idle
    /\ last' = [Call EXCEPT !.op = "new_items", !.cm = cm, !.mm = mm,
                            !.did = Listing(lazy_items(cm, mm, <<>>, {}))]
    /\ UNCHANGED <<cfg_extra_content, cfg_modules, auto_extra_content, auto_modules>>

\* LAZY_DELTA_MAPPING.register(key, value)
AutoRegister(key, value) ==
    /\ Idle
    /\ \E r \in {auto_register(auto_extra_content, key, value)} :
            /\ Len(cfg_extra_content) + Len(r.extra) <= MaxRegistered
            /\ auto_extra_content' = r.extra
            /\ last' = [Call EXCEPT !.op = "auto_register", !.key = key, !.val = value,
                                    !.did = [Did EXCEPT !.err = r.err]]
            /\ UNCHANGED <<cfg_extra_content, cfg_modules, auto_modules>>

\* AutoDeltaConfig.from_dict(config_dict)
FromDict(config_dict) ==
    /\ Idle
    /\ \E r \in {from_dict(cfg_extra_content, config_dict, {})} :
            /\ cfg_modules' = cfg_modules \cup RangeOf(r.imp)
            /\ last' = [Call EXCEPT !.op = "from_dict", !.given = config_dict, !.did = r,
                                    !.reimported = RangeOf(r.imp) \cap cfg_modules]
            /\ UNCHANGED <<cfg_extra_content, auto_extra_content, auto_modules>>

\* AutoDeltaConfig.from_finetuned(location), the loader returning config_dict
ConfigFromFinetuned(location, config_dict) ==
    /\ Idle
    /\ \E r \in {config_from_finetuned(cfg_extra_content, location, config_dict, {})} :
            /\ cfg_modules' = cfg_modules \cup RangeOf(r.imp)
            /\ last' = [Call EXCEPT !.op = "config_from_finetuned", !.loc = location,
                                    !.given = config_dict, !.did = r,
                                    !.reimported = RangeOf(r.imp) \cap cfg_modules]
            /\ UNCHANGED <<cfg_extra_content, auto_extra_content, auto_modules>>

\* AutoDeltaModel.from_config(config, backbone_model)
FromConfig(config, backbone_model) ==
    /\ Idle
    /\ \E r \in {from_config(auto_extra_content, auto_modules, config, backbone_model)} :
            /\ auto_modules' = auto_modules \cup RangeOf(r.imp)
            /\ last' = [Call EXCEPT !.op = "from_config", !.supplied = config,
                                    !.host = backbone_model, !.did = r]
            /\ UNCHANGED <<cfg_extra_content, cfg_modules, auto_extra_content>>

\* AutoDeltaModel.from_finetuned(location, backbone_model, config=supplied)
ModelFromFinetuned(location, backbone_model, supplied, config_dict) ==
    /\ Idle
    /\ \E r \in {model_from_finetuned(cfg_extra_content, auto_extra_content, auto_modules,
                                         supplied, location, config_dict, backbone_model)} :
            /\ cfg_modules' = cfg_modules \cup RangeOf(r.inner.imp)
            /\ auto_modules' = auto_modules \cup RangeOf(r.did.imp)
            /\ last' = [Call EXCEPT !.op = "model_from_finetuned", !.loc = location,
                                    !.host = backbone_model, !.supplied = supplied,
                                    !.given = config_dict, !.did = r.did, !.inner = r.inner,
                                    !.reimported = RangeOf(r.inner.imp) \cap cfg_modules]
            /\ UNCHANGED <<cfg_extra_content, auto_extra_content>>

\* AutoDeltaConfig(*args, **kwargs)
ConstructConfig(args, kwargs) ==
    /\ Idle
    /\ last' = [Call EXCEPT !.op = "config_init", !.args = args, !.kw = kwargs,
                            !.did = AsDid(config_init(args, kwargs))]
    /\ UNCHANGED <<cfg_extra_content, cfg_modules, auto_extra_content, auto_modules>>

\* AutoDeltaModel(*args, **kwargs)
ConstructModel(args, kwargs) ==
    /\ Idle
    /\ last' = [Call EXCEPT !.op = "model_init", !.args = args, !.kw = kwargs,
                            !.did = AsDid(model_init(args, kwargs))]
    /\ UNCHANGED <<cfg_extra_content, cfg_modules, auto_extra_content, auto_modules>>

\* getattribute_from_module(module, attr): the call enters its first frame.
GetAttribute(mod, attr) ==
    /\ Idle
    /\ last' = [Call EXCEPT !.op = "getattribute", !.module = mod, !.attr = attr,
                            !.pending = TRUE]
    /\ UNCHANGED <<cfg_extra_content, cfg_modules, auto_extra_content, auto_modules>>

\* One frame of getattribute_from_module: None for no attribute name, the
\* attribute if the module has it, else the same call on transformers; the
\* interpreter ends the nesting with RecursionError at its limit.
GetAttributeFrame ==
    /\ last.op = "getattribute"
    /\ last.pending
    /\ last' = IF last.attr = ""
               THEN [last EXCEPT !.pending = FALSE]
               ELSE IF HasAttr(last.module, last.attr)
               THEN [last EXCEPT !.pending = FALSE,
                                 !.did = AsDid(Returned(ClassObj(last.module, last.attr), <<>>))]
               ELSE IF last.depth + 1 < RecursionLimit
               THEN [last EXCEPT !.module = transformers, !.depth = last.depth + 1]
               ELSE [last EXCEPT !.pending = FALSE,
                                 !.did = AsDid(Raised(RecursionErr, <<>>))]
    /\ UNCHANGED <<cfg_extra_content, cfg_modules, auto_extra_content, auto_modules>>

\* The caller takes the outcome of the call and goes on.
Resume ==
    /\ ~Idle
    /\ ~last.pending
    /\ last' = Call
    /\ UNCHANGED <<cfg_extra_content, cfg_modules, auto_extra_content, auto_modules>>

----------------------------------------------------------------------------
(* The inputs of the calls.                                                *)

\* The config class and the model class the library defines for a type key.
BuiltinConfig(k) == ClassObj(k, DictGet(DELTA_CONFIG_MAPPING, k))

BuiltinModel(k) == ClassObj(k, DictGet(DELTA_MODEL_MAPPING, k))

\* Classes of the caller: two config classes, one that is never registered,
\* one that bears the name of a built-in config class, and two model classes.
MyConfigA == ClassObj(user, "MyConfigA")
MyConfigB == ClassObj(user, "MyConfigB")
OtherConfig == ClassObj(user, "OtherConfig")
AliasConfig == ClassObj(user, "LoraConfig")
MyModelA == ClassObj(user, "MyModelA")
MyModelB == ClassObj(user, "MyModelB")

Hosts == {"roberta", "t5"}

WithType(k) == "delta_type" :> k

WithRank == "lora_r" :> 7

NoFields == [x \in {} |-> None]

\* The keys looked up in the config registry, and the registrations tried.
CfgLookupKeys == {"lora", "t5", "ia3"}

CfgRegistrations ==
    {<<"lora", MyConfigA>>, <<"t5", MyConfigA>>, <<"t5", MyConfigB>>, <<"base", MyConfigB>>}

\* The keys looked up in the model registry, and the registrations tried.
AutoLookupKeys == {BuiltinConfig("lora"), MyConfigA, OtherConfig, Nameless("obj")}

AutoRegistrations ==
    {<<BuiltinConfig("lora"), MyModelA>>, <<AliasConfig, MyModelA>>,
     <<MyConfigA, MyModelA>>, <<MyConfigA, MyModelB>>, <<Nameless("obj"), MyModelB>>}

\* The mappings given to from_dict.
TypedMappings == {WithType(k) @@ WithRank : k \in {"lora", "t5", "ia3"}}

Mappings == {NoFields, WithRank} \cup TypedMappings

\* The locations given to from_finetuned and the mappings loaded from them.
Locations == {"lora_t5", "low_rank_adapter", "prefix_bitfit", "t5_base", "bert"}

Artifacts == Locations \X ({WithRank} \cup TypedMappings)

\* The configs given to the model factory: what from_dict builds for a type
\* key of the config registry, and instances the caller built itself.
BuiltBy(K) == from_dict(cfg_extra_content, WithType(K) @@ WithRank, {}).ret

OwnConfigs == {ConcreteFromDict(c, NoFields) : c \in {MyConfigA, OtherConfig}}

GivenConfigs == OwnConfigs \cup {BuiltBy(K) : K \in RangeOf(cfg_keys(cfg_extra_content))}

\* The arguments given to the constructors of the two factories.
CtorArgs == {<<>>, <<"roberta">>}

CtorKwargs == {{}, {"config"}}

\* The entries of the table d for the type keys given, in the order given.
SubTable(d, typekeys) == [i \in 1..Len(typekeys) |-> <<typekeys[i], DictGet(d, typekeys[i])>>]

\* The tables the caller builds registries of its own on: the same type keys
\* in another order, and tables that share only some type keys.
TablePairs ==
    {<<SubTable(DELTA_CONFIG_MAPPING, <<"lora", "bitfit">>),
       SubTable(DELTA_MODEL_MAPPING, <<"bitfit", "lora">>)>>,
     <<SubTable(DELTA_CONFIG_MAPPING, <<"lora", "adapter", "bitfit">>),
       SubTable(DELTA_MODEL_MAPPING, <<"lora", "bitfit">>)>>,
     <<SubTable(DELTA_CONFIG_MAPPING, <<"prefix", "lora">>),
       SubTable(DELTA_MODEL_MAPPING, <<"lora", "compacter", "prefix">>)>>}

\* The modules and attribute names given to getattribute_from_module; "" is
\* no attribute name (None).
GivenModules == {"lora", transformers}

GivenAttrs == {"", "LoraModel", "AutoConfig", "Missing"}

Next ==
    \/ \E k \in CfgLookupKeys : CfgGetItem(k)
    \/ \E r \in CfgRegistrations : CfgRegister(r[1], r[2])
    \/ CfgKeys
    \/ CfgIter
    \/ CfgValues
    \/ CfgItems
    \/ \E k \in AutoLookupKeys : AutoGetItem(k)
    \/ \E k \in AutoLookupKeys : AutoGet(k, None)
    \/ \E r \in AutoRegistrations : AutoRegister(r[1], r[2])
    \/ AutoKeys
    \/ AutoValues
    \/ AutoItems
    \/ \E t \in TablePairs : NewRegistryKeys(t[1], t[2])
    \/ \E t \in TablePairs : NewRegistryValues(t[1], t[2])
    \/ \E t \in TablePairs : NewRegistryItems(t[1], t[2])
    \/ \E m \in Mappings : FromDict(m)
    \/ \E a \in Artifacts : ConfigFromFinetuned(a[1], a[2])
    \/ \E c \in GivenConfigs, h \in Hosts : FromConfig(c, h)
    \/ \E a \in Artifacts, h \in Hosts : ModelFromFinetuned(a[1], h, None, a[2])
    \/ \E c \in GivenConfigs, h \in Hosts : ModelFromFinetuned("lora_t5", h, c, WithRank)
    \/ \E a \in CtorArgs, k \in CtorKwargs : ConstructConfig(a, k)
    \/ \E a \in CtorArgs, k \in CtorKwargs : ConstructModel(a, k)
    \/ \E m \in GivenModules, a \in GivenAttrs : GetAttribute(m, a)
    \/ GetAttributeFrame
    \/ Resume

Spec == Init /\ [][Next]_vars

----------------------------------------------------------------------------
(* Properties.                                                             *)

\* The config a call of AutoDeltaModel.from_finetuned went on with: the one
\* supplied, else the one AutoDeltaConfig.from_finetuned returned.
ConfigUsed == IF last.supplied.kind = "inst" THEN last.supplied ELSE last.inner.ret

\* Some type key of the config registry occurs in the location string.
SomeKeyOccurs(location) ==
    \E k \in RangeOf(static_keys) \cup DictKeySet(cfg_extra_content) :
        IsSubstring(Chars[k], Chars[location])

\* C1: for every built-in type key K, the config from_dict builds from a
\* mapping with delta_type = K is, when given to from_config with a host,
\* passed with that host to from_config of the model class that
\* DELTA_MODEL_MAPPING names for K.
C1_DispatchToModelOfKey ==
    \A K \in StaticKeys :
        /\ from_dict(cfg_extra_content, WithType(K) @@ WithRank, {}).err = NoError
        /\ (last.op = "from_config" /\ last.supplied = BuiltBy(K)) =>
               /\ last.did.err = NoError
               /\ last.did.method = "from_config"
               /\ last.did.target = ClassObj(K, DictGet(DELTA_MODEL_MAPPING, K))
               /\ last.did.cfg = BuiltBy(K)
               /\ last.did.host = last.host

\* C1 witness: from_config has dispatched the soft_prompt config with the
\* host t5 while both registries hold runtime registrations.
C1_Witness ==
    /\ last.op = "from_config"
    /\ last.supplied = BuiltBy("soft_prompt")
    /\ last.host = "t5"
    /\ last.did.target = ClassObj("soft_prompt", "SoftPromptModel")
    /\ cfg_extra_content # <<>>
    /\ auto_extra_content # <<>>

\* A key is visible in the config registry through contains, keys and lookup.
CfgVisible(extra, k) ==
    /\ cfg_contains(extra, k)
    /\ k \in RangeOf(cfg_keys(extra))
    /\ cfg_getitem(extra, k).err = NoError

\* C2: register in the config registry fails with Collision for a key of the
\* static table and succeeds for any other key; the key is then visible via
\* contains, keys and lookup, lookup returns the registered value, and the
\* key stays visible, its lookup changing only by a later register of it.
C2_RegisterCollisionOrVisible ==
    /\ [](last.op = "cfg_register" =>
             IF last.key \in {cfg_mapping[i][1] : i \in 1..Len(cfg_mapping)}
             THEN last.did.err = Collision
             ELSE /\ last.did.err = NoError
                  /\ CfgVisible(cfg_extra_content, last.key)
                  /\ cfg_getitem(cfg_extra_content, last.key).ret = last.val)
    /\ [][\A k \in DictKeySet(cfg_extra_content) :
             /\ CfgVisible(cfg_extra_content', k)
             /\ \/ cfg_getitem(cfg_extra_content', k) = cfg_getitem(cfg_extra_content, k)
                \/ /\ last'.op = "cfg_register"
                   /\ last'.key = k
                   /\ cfg_getitem(cfg_extra_content', k).ret = last'.val]_vars

\* C2 witness: a second fresh key has just been registered.
C2_Witness ==
    /\ last.op = "cfg_register"
    /\ last.did.err = NoError
    /\ last.key = "base"
    /\ DictKeys(cfg_extra_content) = <<"t5", "base">>

\* C3 (as claimed): a lookup of a known type key in the config registry
\* returns a type, the same one a repeated lookup returns, and performs the
\* import step only if the registry has not imported the module before.
C3_ImportAtMostOnce ==
    (last.op = "cfg_getitem" /\ cfg_contains(cfg_extra_content, last.key)) =>
        /\ last.did.err = NoError
        /\ last.did.ret.kind = "class"
        /\ cfg_getitem(cfg_extra_content, last.key).ret = last.did.ret
        /\ last.reimported = {}

\* C4 (as claimed): whenever the type of the config from_finetuned goes on
\* with is not among the keys of the model registry, from_finetuned fails
\* with Unrecognized-Config, as from_config does.
C4_FinetunedUnrecognizedConfig ==
    (/\ last.op = "model_from_finetuned"
     /\ ConfigUsed.kind = "inst"
     /\ TypeOf(ConfigUsed) \notin RangeOf(auto_keys(auto_extra_content, auto_modules).ret)) =>
        last.did.err = UnrecognizedConfig

\* C5 (as claimed): from_config with a config whose type is not among the
\* keys of the model registry fails with Unrecognized-Config and lists the
\* name of every built-in and every registered config type.
C5_UnrecognizedConfigListsAll ==
    (/\ last.op = "from_config"
     /\ TypeOf(last.supplied) \notin RangeOf(auto_keys(auto_extra_content, auto_modules).ret)) =>
        /\ last.did.err = UnrecognizedConfig
        /\ \A K \in StaticKeys : DictGet(DELTA_CONFIG_MAPPING, K) \in RangeOf(last.did.listed)
        /\ \A c \in DictKeySet(auto_extra_content) : c.name \in RangeOf(last.did.listed)

\* C6 (as claimed): when the loaded mapping has a delta_type, from_finetuned
\* picks the class from_dict picks and passes on the fields from_dict passes
\* on, which leave delta_type out.
C6_FinetunedAsFromDict ==
    (/\ last.op = "config_from_finetuned"
     /\ "delta_type" \in DOMAIN last.given) =>
        LET d == from_dict(cfg_extra_content, last.given, {})
        IN  /\ last.did.err = d.err
            /\ last.did.target = d.target
            /\ last.did.fwd = d.fwd
            /\ last.did.err = NoError => "delta_type" \notin DOMAIN last.did.fwd

\* C7: from_dict with delta_type = K, for every K the config registry
\* knows, passes on to the config class the given fields without delta_type.
C7_TypeNotForwarded ==
    /\ (last.op = "from_dict" /\ last.did.err = NoError) =>
           /\ "delta_type" \notin DOMAIN last.did.fwd
           /\ \A f \in (DOMAIN last.given) \ {"delta_type"} :
                  f \in DOMAIN last.did.fwd /\ last.did.fwd[f] = last.given[f]
    /\ \A K \in RangeOf(static_keys) \cup DictKeySet(cfg_extra_content) :
           \A m \in {NoFields, WithRank} :
               LET d == from_dict(cfg_extra_content, WithType(K) @@ m, {})
               IN  /\ d.err = NoError
                   /\ d.method = "from_dict"
                   /\ DOMAIN d.fwd = DOMAIN m

\* C7 witness: from_dict has built a config for a key registered at runtime.
C7_Witness ==
    /\ last.op = "from_dict"
    /\ last.did.err = NoError
    /\ last.given = WithType("t5") @@ WithRank
    /\ last.did.target = MyConfigB
    /\ last.did.fwd = WithRank

\* C8: from_dict with a mapping without delta_type fails with Missing-Type,
\* whatever the other fields and the state of the registry.
C8_MissingType ==
    /\ (last.op = "from_dict" /\ "delta_type" \notin DOMAIN last.given) =>
           last.did.err = MissingType
    /\ \A m \in {NoFields, WithRank} :
           from_dict(cfg_extra_content, m, {}).err = MissingType

\* C8 witness: from_dict has refused a mapping that holds only lora_r, with
\* a key registered at runtime.
C8_Witness ==
    /\ last.op = "from_dict"
    /\ last.given = WithRank
    /\ last.did.err = MissingType
    /\ cfg_extra_content # <<>>

\* The type keys in registry order: the static table, then the extra content.
KeysInOrder == static_keys \o DictKeys(cfg_extra_content)

\* C9: when the loaded mapping has no delta_type, from_finetuned picks the
\* class of the first type key, in registry order, that occurs in the
\* location string; a location containing "lora" gives the lora config class.
C9_FirstMatchInRegistryOrder ==
    (/\ last.op = "config_from_finetuned"
     /\ "delta_type" \notin DOMAIN last.given
     /\ SomeKeyOccurs(last.loc)) =>
        /\ last.did.err = NoError
        /\ \E i \in 1..Len(KeysInOrder) :
               /\ IsSubstring(Chars[KeysInOrder[i]], Chars[last.loc])
               /\ \A j \in 1..(i - 1) : ~IsSubstring(Chars[KeysInOrder[j]], Chars[last.loc])
               /\ last.did.target = cfg_getitem(cfg_extra_content, KeysInOrder[i]).ret
        /\ IsSubstring(Chars["lora"], Chars[last.loc]) =>
               last.did.target = ClassObj("lora", "LoraConfig")

\* C9 witness: two keys registered at runtime both occur in the location,
\* and the class of the one registered first was picked.
C9_Witness ==
    /\ last.op = "config_from_finetuned"
    /\ last.loc = "t5_base"
    /\ last.given = WithRank
    /\ cfg_extra_content = << <<"base", MyConfigB>>, <<"t5", MyConfigA>> >>
    /\ last.did.target = MyConfigB

\* C10: from_finetuned fails with Unrecognized-Source exactly when the loaded
\* mapping has no delta_type and no type key occurs in the location string,
\* and the failure lists every static and every registered type key.
C10_UnrecognizedSource ==
    last.op = "config_from_finetuned" =>
        /\ last.did.err = UnrecognizedSource <=>
               ("delta_type" \notin DOMAIN last.given /\ ~SomeKeyOccurs(last.loc))
        /\ last.did.err = UnrecognizedSource =>
               /\ last.did.listed = KeysInOrder
               /\ DictKeySet(cfg_extra_content) \subseteq RangeOf(last.did.listed)

\* C10 witness: the failure listed two keys registered at runtime.
C10_Witness ==
    /\ last.op = "config_from_finetuned"
    /\ last.did.err = UnrecognizedSource
    /\ last.loc = "bert"
    /\ Len(cfg_extra_content) = 2
    /\ Len(last.did.listed) = Len(static_keys) + 2

\* C11 (as claimed): constructing AutoDeltaModel or AutoDeltaConfig directly
\* fails with Construction-Forbidden whatever arguments are passed.
C11_ConstructionForbidden ==
    last.op \in {"config_init", "model_init"} => last.did.err = ConstructionForbidden

\* The config class the config factory produces from the type key K.
ProducedFrom(K) == from_dict(cfg_extra_content, WithType(K) @@ WithRank, {}).target

\* C12 (as claimed): for every type key K the config registry knows, static
\* or registered at runtime, the reverse index of the model registry maps the
\* name of the config class produced from K back to K.
C12_ReverseIndexAllKeys ==
    \A K \in RangeOf(cfg_keys(cfg_extra_content)) :
        /\ DictHas(reverse_config_mapping, ProducedFrom(K).name)
        /\ DictGet(reverse_config_mapping, ProducedFrom(K).name) = K

\* C12 (amended): for every built-in type key K, after any sequence of
\* register operations, the config factory produces a config class from K
\* and the reverse index of the model registry maps its name back to K.
C12_ReverseIndexBuiltin ==
    /\ \A K \in StaticKeys :
           /\ from_dict(cfg_extra_content, WithType(K) @@ WithRank, {}).err = NoError
           /\ DictHas(reverse_config_mapping, ProducedFrom(K).name)
           /\ DictGet(reverse_config_mapping, ProducedFrom(K).name) = K
    /\ (last.op = "from_dict" /\ last.did.err = NoError
            /\ last.given["delta_type"] \in StaticKeys) =>
           /\ DictHas(reverse_config_mapping, last.did.target.name)
           /\ DictGet(reverse_config_mapping, last.did.target.name)
                  = last.given["delta_type"]

\* C12 witness: from_dict has produced the lora config class while both
\* registries hold runtime registrations.
C12_Witness ==
    /\ last.op = "from_dict"
    /\ last.given = WithType("lora") @@ WithRank
    /\ last.did.target = ClassObj("lora", "LoraConfig")
    /\ DictGet(reverse_config_mapping, last.did.target.name) = "lora"
    /\ cfg_extra_content # <<>>
    /\ auto_extra_content # <<>>

\* The calls that register, and the factory builds.
RegisterOps == {"cfg_register", "auto_register"}

BuildOps == {"from_dict", "config_from_finetuned", "from_config", "model_from_finetuned"}

\* C13 (as claimed): a register or a factory build that fails leaves the
\* dynamic content and the import caches of both registries as they were.
C13_FailureChangesNothing ==
    [][(last'.op \in RegisterOps \cup BuildOps /\ last'.did.err # NoError) =>
           UNCHANGED <<cfg_extra_content, cfg_modules, auto_extra_content, auto_modules>>]_vars

\* C13 (amended): a register that fails leaves the dynamic content and the
\* import caches of both registries as they were; a factory build that fails
\* leaves the dynamic content of both registries as it was, and their import
\* caches keep every module they held.
C13_FailureKeepsContent ==
    [][/\ (last'.op \in RegisterOps /\ last'.did.err # NoError) =>
              UNCHANGED <<cfg_extra_content, cfg_modules, auto_extra_content, auto_modules>>
       /\ (last'.op \in BuildOps /\ last'.did.err # NoError) =>
              /\ UNCHANGED <<cfg_extra_content, auto_extra_content>>
              /\ cfg_modules \subseteq cfg_modules'
              /\ auto_modules \subseteq auto_modules']_vars

\* C13 witness: a register has failed on a registry that holds a runtime
\* registration and imported modules.
C13_Witness ==
    /\ last.op = "cfg_register"
    /\ last.did.err = Collision
    /\ cfg_extra_content # <<>>
    /\ cfg_modules # {}

\* The name is that of a config class of the config table whose type key the
\* model table has too.
ClaimedByBuiltin(name) ==
    \E i \in 1..Len(DELTA_CONFIG_MAPPING), j \in 1..Len(DELTA_MODEL_MAPPING) :
        /\ DELTA_CONFIG_MAPPING[i][2] = name
        /\ DELTA_MODEL_MAPPING[j][1] = DELTA_CONFIG_MAPPING[i][1]

\* C14: register in the model registry fails with Collision exactly when the
\* key has a name that a built-in entry with a model claims; otherwise it
\* succeeds and lookup of the key returns the value; and lookup of a built-in
\* config class returns its built-in model class in every reachable state.
C14_AutoRegisterGuardsBuiltins ==
    /\ last.op = "auto_register" =>
           /\ last.did.err = Collision <=>
                  (last.key.kind = "class" /\ ClaimedByBuiltin(last.key.name))
           /\ last.did.err # Collision =>
                  /\ last.did.err = NoError
                  /\ auto_getitem(auto_extra_content, auto_modules, last.key).err = NoError
                  /\ auto_getitem(auto_extra_content, auto_modules, last.key).ret = last.val
    /\ \A i \in 1..Len(DELTA_MODEL_MAPPING) :
           LET K == DELTA_MODEL_MAPPING[i][1]
               got == auto_getitem(auto_extra_content, auto_modules, BuiltinConfig(K))
           IN  /\ got.err = NoError
               /\ got.ret = ClassObj(K, DELTA_MODEL_MAPPING[i][2])

\* C14 witness: a class of the caller that bears the name of the built-in
\* lora config class has been refused, after another key was registered.
C14_Witness ==
    /\ last.op = "auto_register"
    /\ last.key = AliasConfig
    /\ last.did.err = Collision
    /\ auto_extra_content # <<>>

\* C15 (as claimed): attribute resolution looks at the given module, falls
\* back to transformers once, and then stops with the attribute or a failure
\* of its own: it never retries the fallback.
C15_ResolutionStops ==
    last.op = "getattribute" =>
        /\ last.depth <= 1
        /\ last.did.err # RecursionErr

\* The static entries resolved, in table order.
StaticResolved ==
    [i \in 1..Len(DELTA_CONFIG_MAPPING) |->
        ClassObj(DELTA_CONFIG_MAPPING[i][1], DELTA_CONFIG_MAPPING[i][2])]

\* What an enumeration of the config registry lists: the static entries in
\* table order, then the extra content in registration order.
ListedInOrder ==
    /\ last.did.err = NoError
    /\ last.op \in {"cfg_keys", "cfg_iter"} =>
           last.did.listed = DictKeys(DELTA_CONFIG_MAPPING) \o DictKeys(cfg_extra_content)
    /\ last.op = "cfg_values" =>
           last.did.listed = StaticResolved \o DictValues(cfg_extra_content)
    /\ last.op = "cfg_items" =>
           last.did.listed =
               [i \in 1..Len(StaticResolved) |->
                   <<DELTA_CONFIG_MAPPING[i][1], StaticResolved[i]>>] \o cfg_extra_content

\* C16 (as claimed): keys(), values(), items() and iteration on the config
\* registry list the static keys, then the extra content, and after any of
\* them the module of every static type key has been imported.
C16_EnumerationImportsAll ==
    last.op \in {"cfg_keys", "cfg_iter", "cfg_values", "cfg_items"} =>
        /\ ListedInOrder
        /\ StaticKeys \subseteq cfg_modules

\* C16 (amended): all four list the static entries, then the extra content;
\* values() and items() resolve every static entry, so after either the
\* module of every static type key has been imported; keys() and iteration
\* resolve nothing and import no module.
C16_ValuesAndItemsImportAll ==
    /\ last.op \in {"cfg_keys", "cfg_iter", "cfg_values", "cfg_items"} => ListedInOrder
    /\ last.op \in {"cfg_values", "cfg_items"} =>
           /\ StaticKeys \subseteq cfg_modules
           /\ RangeOf(last.did.imp) = StaticKeys
    /\ last.op \in {"cfg_keys", "cfg_iter"} => last.did.imp = <<>>

\* C16 witness: values() has listed the seven built-in classes and then the
\* two registered ones, and every static module is imported.
C16_Witness ==
    /\ last.op = "cfg_values"
    /\ Len(cfg_extra_content) = 2
    /\ Len(last.did.listed) = Len(DELTA_CONFIG_MAPPING) + 2
    /\ cfg_modules = StaticKeys

\* C17 (as claimed): a key whose lookup returns a value keeps that value in
\* every later state, in the config registry and in the model registry: no
\* register replaces or removes an entry that is visible.
C17_LookupsNeverChange ==
    [][/\ \A k \in StaticKeys \cup DictKeySet(cfg_extra_content) :
              cfg_getitem(cfg_extra_content, k).err = NoError =>
                  /\ cfg_getitem(cfg_extra_content', k).err = NoError
                  /\ cfg_getitem(cfg_extra_content', k).ret
                         = cfg_getitem(cfg_extra_content, k).ret
       /\ \A c \in AutoLookupKeys \cup DictKeySet(auto_extra_content) :
              auto_getitem(auto_extra_content, auto_modules, c).err = NoError =>
                  /\ auto_getitem(auto_extra_content', auto_modules', c).err = NoError
                  /\ auto_getitem(auto_extra_content', auto_modules', c).ret
                         = auto_getitem(auto_extra_content, auto_modules, c).ret]_vars

\* The extra content of the registry the last enumeration was made on.
EnumeratedExtra ==
    IF last.op \in {"auto_keys", "auto_values", "auto_items"} THEN auto_extra_content ELSE <<>>

\* keys(), values() and items() of a registry agree position by position.
Aligned(cm, mm, extra) ==
    LET ks == lazy_keys(cm, mm, extra, {}).ret
        vs == lazy_values(cm, mm, extra, {}).ret
        its == lazy_items(cm, mm, extra, {}).ret
    IN  /\ Len(ks) = Len(vs)
        /\ Len(its) = Len(ks)
        /\ \A i \in 1..Len(its) : its[i] = <<ks[i], vs[i]>>
        /\ Len(its) = Cardinality(DictKeySet(cm) \cap DictKeySet(mm)) + Len(extra)
        /\ SubSeq(its, Len(its) - Len(extra) + 1, Len(its)) = extra

\* C18 (as claimed): on a model registry built on any config table and model
\* table, keys(), values() and items() have the same length and items()[i] is
\* the pair of keys()[i] and values()[i], the pairs of the type keys of both
\* tables first and the registered pairs after them.
C18_EnumerationsAligned ==
    last.op \in {"auto_keys", "auto_values", "auto_items",
                 "new_keys", "new_values", "new_items"} =>
        /\ last.did.err = NoError
        /\ Aligned(last.cm, last.mm, EnumeratedExtra)
        /\ last.op \in {"auto_keys", "new_keys"} =>
               last.did.listed = lazy_keys(last.cm, last.mm, EnumeratedExtra, {}).ret
        /\ last.op \in {"auto_values", "new_values"} =>
               last.did.listed = lazy_values(last.cm, last.mm, EnumeratedExtra, {}).ret
        /\ last.op \in {"auto_items", "new_items"} =>
               last.did.listed = lazy_items(last.cm, last.mm, EnumeratedExtra, {}).ret

\* C19: no key is both in the static table and in the extra content of the
\* config registry, and lookup of a static type key returns the built-in
\* config class, whatever has been registered.
C19_NoShadowedBuiltin ==
    /\ DictKeySet(DELTA_CONFIG_MAPPING) \cap DictKeySet(cfg_extra_content) = {}
    /\ \A i \in 1..Len(DELTA_CONFIG_MAPPING) :
           LET got == cfg_getitem(cfg_extra_content, DELTA_CONFIG_MAPPING[i][1])
           IN  /\ got.err = NoError
               /\ got.ret = ClassObj(DELTA_CONFIG_MAPPING[i][1], DELTA_CONFIG_MAPPING[i][2])
    /\ (last.op = "cfg_getitem" /\ last.key \in DictKeySet(DELTA_CONFIG_MAPPING)) =>
           last.did.ret = ClassObj(last.key, DictGet(DELTA_CONFIG_MAPPING, last.key))

\* C19 witness: the static key lora has been looked up after a register of
\* lora was refused and another key was registered.
C19_Witness ==
    /\ last.op = "cfg_getitem"
    /\ last.key = "lora"
    /\ last.did.ret = ClassObj("lora", "LoraConfig")
    /\ cfg_extra_content # <<>>

\* C20 (as claimed): in the model registry contains(x) holds exactly when
\* lookup of x returns a value; when it does not hold, lookup fails with
\* Key-not-found and get(x, default) returns the default, also for an x
\* without a name.
C20_ContainsAgreesWithLookup ==
    /\ last.op = "auto_getitem" =>
           /\ auto_contains(auto_extra_content, last.key) <=> last.did.err = NoError
           /\ ~auto_contains(auto_extra_content, last.key) => last.did.err = KeyNotFound
    /\ last.op = "auto_get" =>
           /\ last.did.err = NoError
           /\ ~auto_contains(auto_extra_content, last.key) => last.did.ret = last.val

====
